---------------------------- MODULE Spec2Model ----------------------------
(***************************************************************************)
(* A model of CpuNonbondedForce (platforms/cpu/src/CpuNonbondedForce.cpp): *)
(* the configuration setters (SpecConfig), the thread-parallel direct-space *)
(* evaluation with its reduction (SpecEval), the reciprocal-vector         *)
(* enumeration of the Ewald sum with its phase-factor table (SpecRecip),   *)
(* the table lookup of the Ewald block kernel (SpecLookup) and the         *)
(* displacement of a block kernel's lane (SpecWrap).                       *)
(*                                                                         *)
(* Numbers are integers.  Distances, box sizes and alpha are whole numbers *)
(* of an arbitrary length unit; ewaldDX is kept in units of                *)
(* 1/(NUM_TABLE_POINTS-2), so that ewaldDX = cutoffDistance is the value   *)
(* line 159 computes.  Members the constructor leaves uninitialised start  *)
(* with an arbitrary value of their domain.                                *)
(***************************************************************************)
EXTENDS Integers, Naturals, Sequences, FiniteSets, TLC

\* ------------------------------------------------------------------ bounds
MaxDist == 2
MaxAlpha == 2
MaxK == 3
MaxThreads == 2
MaxBlocks == 2

\* ------------------------------------------------------- program constants
NUM_TABLE_POINTS == 1025

\* ------------------------------------------------------------ input domains
Distances == 1..MaxDist
Alphas == 1..MaxAlpha
BoxDims == {MaxDist, 2 * MaxDist}
Boxes == [1..3 -> BoxDims]
KMaxes == 1..MaxK
MaxAtoms == 4 * MaxBlocks

VARIABLES
    cutoff, useSwitch, periodic, ewald, pme,   \* the five mode flags
    cutoffDistance, switchingDistance, periodicBoxSize, alphaEwald,
    numRx, numRy, numRz,
    neighborList,          \* "unset" or "set": the pointer of line 79
    ewaldDX,               \* table step, in units of 1/(NUM_TABLE_POINTS-2)
    ewaldScaleTable,       \* <<>> or the <<alpha, cutoff>> it was sampled with
    aborted,               \* a failed assert has ended the program
    \* ---- one calculateDirectIxn call and its workers
    numThreads,            \* threads.getNumThreads(), the size of the pool
    system,                \* which system the caller simulates (1 or 2)
    posq, exclusions,      \* the caller's atoms: position, charge, exclusion sets
    sortedAtoms,           \* the neighbor list's atom order, as the call finds it
    numberOfAtoms, includeEnergy,
    forces, totalEnergy,   \* the caller's buffers (totalEnergy is the pointee)
    threadEnergy, threadForce,
    pc,                    \* "init", "running" (between lines 310 and 311), "returned"
    tpc, ti,               \* each worker's place in threadComputeDirect, its loop index
    forces0, energy0,      \* history: the caller's buffers as the call found them
    processed,             \* history: how often each worker ran each work unit
    probe,                 \* history: the lane a block kernel computed last
    \* ---- the Ewald branch of calculateReciprocalIxn
    rpc, rx, ry, rz, lowry, lowrz,
    visited,               \* history: how often each (rx, ry, rz) was summed
    eirRows                \* history: the rows k of EIR(k, atom, axis) accessed

flagVars == <<cutoff, useSwitch, periodic, ewald, pme>>
paramVars == <<cutoffDistance, switchingDistance, periodicBoxSize, alphaEwald,
               numRx, numRy, numRz, neighborList>>
tableVars == <<ewaldDX, ewaldScaleTable>>
configVars == <<flagVars, paramVars, tableVars>>
callVars == <<numThreads, system, posq, exclusions, sortedAtoms, numberOfAtoms, includeEnergy,
              forces, totalEnergy, threadEnergy, threadForce, pc, tpc, ti,
              forces0, energy0, processed, probe>>
recipVars == <<rpc, rx, ry, rz, lowry, lowrz, visited, eirRows>>
vars == <<configVars, aborted, callVars, recipVars>>

\* The constructor (line 62) clears the five flags and initialises nothing
\* else; ewaldScaleTable is a vector and starts empty.
ConstructorInit ==
    /\ cutoff = FALSE /\ useSwitch = FALSE /\ periodic = FALSE
    /\ ewald = FALSE /\ pme = FALSE
    /\ cutoffDistance \in Distances
    /\ switchingDistance \in Distances
    /\ periodicBoxSize \in Boxes
    /\ alphaEwald \in Alphas
    /\ numRx \in {1, MaxK} /\ numRy = numRx /\ numRz = numRx
    /\ neighborList = "unset"
    /\ ewaldDX \in Distances
    /\ ewaldScaleTable = <<>>
    /\ aborted = FALSE

\* ------------------------------------------------------------ the setters
setUseCutoff(distance) ==
    /\ ~aborted
    /\ UNCHANGED <<callVars, recipVars>>
    /\ cutoff' = TRUE
    /\ cutoffDistance' = distance
    /\ neighborList' = "set"
    /\ UNCHANGED <<useSwitch, periodic, ewald, pme, switchingDistance,
                   periodicBoxSize, alphaEwald, numRx, numRy, numRz,
                   tableVars, aborted>>

setUseSwitchingFunction(distance) ==
    /\ ~aborted
    /\ UNCHANGED <<callVars, recipVars>>
    /\ useSwitch' = TRUE
    /\ switchingDistance' = distance
    /\ UNCHANGED <<cutoff, periodic, ewald, pme, cutoffDistance,
                   periodicBoxSize, alphaEwald, numRx, numRy, numRz,
                   neighborList, tableVars, aborted>>

\* The setPeriodic of a build that compiles the four asserts away.
setPeriodic_noAssert(box) ==
    /\ ~aborted
    /\ UNCHANGED <<callVars, recipVars>>
    /\ periodic' = TRUE
    /\ periodicBoxSize' = box
    /\ UNCHANGED <<cutoff, useSwitch, ewald, pme, cutoffDistance,
                   switchingDistance, alphaEwald, numRx, numRy, numRz,
                   neighborList, tableVars, aborted>>

\* The four asserts of lines 109-112 end the program before line 113.
setPeriodic(box) ==
    /\ ~aborted
    /\ UNCHANGED <<callVars, recipVars>>
    /\ \/ /\ cutoff
          /\ box[1] >= 2 * cutoffDistance
          /\ box[2] >= 2 * cutoffDistance
          /\ box[3] >= 2 * cutoffDistance
          /\ periodic' = TRUE
          /\ periodicBoxSize' = box
          /\ UNCHANGED aborted
       \/ /\ ~(/\ cutoff
               /\ box[1] >= 2 * cutoffDistance
               /\ box[2] >= 2 * cutoffDistance
               /\ box[3] >= 2 * cutoffDistance)
          /\ aborted' = TRUE
          /\ UNCHANGED <<periodic, periodicBoxSize>>
    /\ UNCHANGED <<cutoff, useSwitch, ewald, pme, cutoffDistance,
                   switchingDistance, alphaEwald, numRx, numRy, numRz,
                   neighborList, tableVars>>

\* Lines 158-178: the step and the samples are computed from the members
\* alphaEwald and cutoffDistance as they are at the moment of the call.
tabulateEwaldScaleFactor ==
    /\ ewaldDX' = cutoffDistance'
    /\ ewaldScaleTable' = <<alphaEwald', cutoffDistance'>>

setUseEwald(alpha, kmaxx, kmaxy, kmaxz) ==
    /\ ~aborted
    /\ UNCHANGED <<callVars, recipVars>>
    /\ alphaEwald' = alpha
    /\ numRx' = kmaxx /\ numRy' = kmaxy /\ numRz' = kmaxz
    /\ ewald' = TRUE
    /\ UNCHANGED <<cutoff, useSwitch, periodic, pme, cutoffDistance,
                   switchingDistance, periodicBoxSize, neighborList, aborted>>
    /\ tabulateEwaldScaleFactor

setUsePME(alpha) ==
    /\ ~aborted
    /\ UNCHANGED <<callVars, recipVars>>
    /\ alphaEwald' = alpha
    /\ pme' = TRUE
    /\ UNCHANGED <<cutoff, useSwitch, periodic, ewald, cutoffDistance,
                   switchingDistance, periodicBoxSize, numRx, numRy, numRz,
                   neighborList, aborted>>
    /\ tabulateEwaldScaleFactor

\* ------------------------------------- the engine before any evaluation
NoCall ==
    /\ numThreads = 1
    /\ system = 1
    /\ posq = <<>> /\ exclusions = <<>> /\ sortedAtoms = <<>>
    /\ numberOfAtoms = 0 /\ includeEnergy = FALSE
    /\ forces = <<>> /\ totalEnergy = 0
    /\ threadEnergy = <<>> /\ threadForce = <<>>
    /\ pc = "init" /\ tpc = <<>> /\ ti = <<>>
    /\ forces0 = <<>> /\ energy0 = 0
    /\ processed = <<>>
    /\ probe = [kind |-> "none"]

NoRecip ==
    /\ rpc = "init"
    /\ rx = 0 /\ ry = 0 /\ rz = 0 /\ lowry = 0 /\ lowrz = 1
    /\ visited = <<>>
    /\ eirRows = {}

\* ------------------------------------------- the configuration interface
InitConfig == ConstructorInit /\ NoCall /\ NoRecip

NextConfig ==
    \/ \E d \in Distances : setUseCutoff(d)
    \/ \E d \in Distances : setUseSwitchingFunction(d)
    \/ \E box \in Boxes : setPeriodic(box)
    \/ \E a \in Alphas, k \in {1, MaxK} : setUseEwald(a, k, k, k)
    \/ \E a \in Alphas : setUsePME(a)

SpecConfig == InitConfig /\ [][NextConfig]_vars

\* ------------------------------------------------- the pair arithmetic
\* Arrays are functions on 0..n-1.  One Cartesian component (x) of every
\* position and force is carried: fvec4 arithmetic is lane-wise and the
\* code treats the lanes alike.  Arithmetic is exact (integers), so sums
\* may be reassociated.  The float expressions of the pair kernels
\* (inverse powers of r, the spline, erfc) are replaced by integer
\* functions of the same arguments, the charge product and r^2; what is
\* kept is which pairs contribute, to which slots, with which sign, and
\* under which conditions.
Atoms == 0..(numberOfAtoms - 1)

Threads == 0..(numThreads - 1)

Resize(a, n, fill) == [i \in 0..(n - 1) |-> IF i \in DOMAIN a THEN a[i] ELSE fill]

\* round(d/b) for b > 0, to the nearest integer.
Round(d, b) == (2 * d + b) \div (2 * b)

\* Lines 660-679: deltaR = posJ - posI, less the nearest box multiple when
\* periodic is passed as true.
getDeltaR(posI, posJ, wrap) ==
    LET d == posJ - posI
        box == periodicBoxSize[1]
    IN  IF wrap THEN d - Round(d, box) * box ELSE d

chargeProd(i, j) == posq[i].q * posq[j].q

\* Stand-ins for dEdR and the pair energy of the three direct kernels and
\* of the exclusion correction.
dEdRCoulomb(qq, r2) == 3 * qq + r2
energyCoulomb(qq, r2) == 2 * qq + r2 + 1
dEdRReactionField(qq, r2) == 3 * qq - 2 * r2
energyReactionField(qq, r2) == 2 * qq + r2 - 1
dEdREwald(qq, r2) == 5 * qq + r2
energyEwald(qq, r2) == 4 * qq + r2 + 1
dEdRExclusion(qq, r2) == 7 * qq + r2
energyExclusion(qq, r2) == 6 * qq + r2 + 1

\* Lines 394-446.  acc is a worker's [f: force array, e: energy].
calculateOneIxn(ii, jj, acc, withEnergy) ==
    LET deltaR == getDeltaR(posq[jj].x, posq[ii].x, periodic)
        r2 == deltaR * deltaR
        qq == chargeProd(ii, jj)
        dEdR == IF cutoff THEN dEdRReactionField(qq, r2) ELSE dEdRCoulomb(qq, r2)
        energy == IF cutoff THEN energyReactionField(qq, r2)
                            ELSE energyCoulomb(qq, r2)
        result == deltaR * dEdR
    IN  IF cutoff /\ r2 >= cutoffDistance * cutoffDistance
        THEN acc
        ELSE [f |-> [acc.f EXCEPT ![ii] = @ + result, ![jj] = @ - result],
              e |-> IF withEnergy THEN acc.e + energy ELSE acc.e]

\* ---- the neighbor list (CpuNeighborList, not part of this file)
BlockSize == 4

getNumBlocks == numberOfAtoms \div BlockSize

blockAtom(b, k) == sortedAtoms[BlockSize * b + k]

\* The neighbors of block b: the atoms after the block's first one in the
\* sorted order.
getBlockNeighbors(b) ==
    [i \in 1..(numberOfAtoms - BlockSize * b - 1) |-> sortedAtoms[BlockSize * b + i]]

Excluded(i, j) == j \in exclusions[i] \/ i \in exclusions[j]

\* Bit k of the mask of neighbor i of block b is set when lane k is the
\* neighbor itself or comes after it in the block (the pair is then lane
\* i's), or when the pair is excluded.
exclusionBit(b, i, k) ==
    \/ i <= k
    \/ Excluded(blockAtom(b, k), sortedAtoms[BlockSize * b + i])

Lanes == 0..(BlockSize - 1)

\* Lines 465-473 and 575-581.  The Ewald kernel does not test periodic.
needPeriodic(b, isEwald) ==
    /\ isEwald \/ periodic
    /\ \E k \in Lanes :
          \/ posq[blockAtom(b, k)].x - cutoffDistance < 0
          \/ posq[blockAtom(b, k)].x + cutoffDistance > periodicBoxSize[1]

\* Lines 492 and 600.
include(b, i, k, r2, isEwald) ==
    /\ ~exclusionBit(b, i, k)
    /\ IF isEwald THEN r2 < cutoffDistance * cutoffDistance
                  ELSE ~cutoff \/ r2 < cutoffDistance * cutoffDistance

\* Lane k of neighbor i of block b: lines 490-547 and 598-649.  The force
\* on the block atom and the energy, or nothing when the lane is masked.
laneIxn(b, i, k, withEnergy, isEwald) ==
    LET atom == sortedAtoms[BlockSize * b + i]
        d == getDeltaR(posq[atom].x, posq[blockAtom(b, k)].x, needPeriodic(b, isEwald))
        r2 == d * d
        qq == chargeProd(blockAtom(b, k), atom)
        dEdR == IF isEwald THEN dEdREwald(qq, r2)
                ELSE IF cutoff THEN dEdRReactionField(qq, r2)
                ELSE dEdRCoulomb(qq, r2)
        energy == IF isEwald THEN energyEwald(qq, r2)
                  ELSE IF cutoff THEN energyReactionField(qq, r2)
                  ELSE energyCoulomb(qq, r2)
    IN  IF include(b, i, k, r2, isEwald)
        THEN [result |-> d * dEdR, energy |-> IF withEnergy THEN energy ELSE 0]
        ELSE [result |-> 0, energy |-> 0]

RECURSIVE SumLanes(_, _, _, _, _, _)
SumLanes(b, i, k, withEnergy, isEwald, field) ==
    IF k >= BlockSize THEN 0
    ELSE (IF field = "result" THEN laneIxn(b, i, k, withEnergy, isEwald).result
                              ELSE laneIxn(b, i, k, withEnergy, isEwald).energy)
         + SumLanes(b, i, k + 1, withEnergy, isEwald, field)

\* The neighbor loop (lines 480-550, 588-652) from neighbor i on: each
\* neighbor's opposite force goes to its slot at once, the block atoms'
\* forces are gathered in blockAtomForce.
RECURSIVE neighborLoop(_, _, _, _, _, _)
neighborLoop(b, i, acc, blockAtomForce, withEnergy, isEwald) ==
    IF i > numberOfAtoms - BlockSize * b - 1
    THEN [acc |-> acc, blockAtomForce |-> blockAtomForce]
    ELSE LET atom == getBlockNeighbors(b)[i]
             next == [f |-> [acc.f EXCEPT ![atom] =
                                @ - SumLanes(b, i, 0, withEnergy, isEwald, "result")],
                      e |-> acc.e + SumLanes(b, i, 0, withEnergy, isEwald, "energy")]
             gathered == [k \in Lanes |->
                             blockAtomForce[k] + laneIxn(b, i, k, withEnergy, isEwald).result]
         IN  neighborLoop(b, i + 1, next, gathered, withEnergy, isEwald)

\* The block atoms' gathered forces are stored last (lines 554-555, 656-657).
RECURSIVE storeBlockAtoms(_, _, _, _)
storeBlockAtoms(b, k, f, blockAtomForce) ==
    IF k >= BlockSize THEN f
    ELSE storeBlockAtoms(b, k + 1,
                         [f EXCEPT ![blockAtom(b, k)] = @ + blockAtomForce[k]],
                         blockAtomForce)

blockIxn(b, acc, withEnergy, isEwald) ==
    LET done == neighborLoop(b, 1, acc, [k \in Lanes |-> 0], withEnergy, isEwald)
    IN  [f |-> storeBlockAtoms(b, 0, done.acc.f, done.blockAtomForce),
         e |-> done.acc.e]

calculateBlockIxn(blockIndex, acc, withEnergy) ==
    blockIxn(blockIndex, acc, withEnergy, FALSE)

calculateBlockEwaldIxn(blockIndex, acc, withEnergy) ==
    blockIxn(blockIndex, acc, withEnergy, TRUE)

\* ------------------------------------------------ threadComputeDirect
\* The correction with the energy subtracted whether or not it was asked for.
exclusionIxn_alwaysEnergy(i, j, acc, withEnergy) ==
    LET deltaR == getDeltaR(posq[j].x, posq[i].x, FALSE)
        r2 == deltaR * deltaR
        qq == chargeProd(i, j)
        result == deltaR * dEdRExclusion(qq, r2)
    IN  [f |-> [acc.f EXCEPT ![i] = @ - result, ![j] = @ + result],
         e |-> acc.e - energyExclusion(qq, r2)]

\* Lines 356-372: the correction of the excluded pair (i, j), no cutoff
\* test and no wrapping (periodic is passed as false).
exclusionIxn(i, j, acc, withEnergy) ==
    LET deltaR == getDeltaR(posq[j].x, posq[i].x, FALSE)
        r2 == deltaR * deltaR
        qq == chargeProd(i, j)
        result == deltaR * dEdRExclusion(qq, r2)
    IN  [f |-> [acc.f EXCEPT ![i] = @ - result, ![j] = @ + result],
         e |-> IF withEnergy THEN acc.e - energyExclusion(qq, r2) ELSE acc.e]

Min(S) == CHOOSE m \in S : \A o \in S : m <= o

\* Lines 354-374: the std::set is walked in ascending order; only the
\* partners above i are corrected.
RECURSIVE exclusionLoop(_, _, _, _)
exclusionLoop(i, left, acc, withEnergy) ==
    IF left = {} THEN acc
    ELSE LET j == Min(left)
         IN  exclusionLoop(i, left \ {j},
                           IF j > i THEN exclusionIxn(i, j, acc, withEnergy) ELSE acc,
                           withEnergy)

\* Lines 387-389: atom i against every later atom whose own exclusion set
\* does not hold i.
RECURSIVE pairLoop(_, _, _, _)
pairLoop(i, j, acc, withEnergy) ==
    IF j >= numberOfAtoms THEN acc
    ELSE pairLoop(i, j + 1,
                  IF i \notin exclusions[j] THEN calculateOneIxn(i, j, acc, withEnergy)
                                           ELSE acc,
                  withEnergy)

\* The four loops of threadComputeDirect, by name, and what bounds each.
Passes == {"ewaldBlocks", "exclusions", "cutoffBlocks", "pairs"}

unitCount(pass) ==
    IF pass \in {"ewaldBlocks", "cutoffBlocks"} THEN getNumBlocks ELSE numberOfAtoms

\* One pass of the body of a loop, for work unit i.
unitBody(pass, i, acc, withEnergy) ==
    CASE pass = "ewaldBlocks" -> calculateBlockEwaldIxn(i, acc, withEnergy)
      [] pass = "exclusions" -> exclusionLoop(i, exclusions[i], acc, withEnergy)
      [] pass = "cutoffBlocks" -> calculateBlockIxn(i, acc, withEnergy)
      [] pass = "pairs" -> pairLoop(i, i + 1, acc, withEnergy)

\* Lines 342, 377, 383: the loop a worker enters first, and the one that
\* follows a finished loop ("done": none).
firstPass == IF ewald \/ pme THEN "ewaldBlocks" ELSE IF cutoff THEN "cutoffBlocks" ELSE "pairs"

nextPass(pass) == IF pass = "ewaldBlocks" THEN "exclusions" ELSE "done"

\* A loop that every worker starts at 0.
loopStart_zero(threadIndex) == 0

\* A loop that advances by one.
loopStep_one(i, nThreads) == i + 1

\* Lines 345, 352, 380, 386: for (int i = threadIndex; ...; i += numThreads).
loopStart(threadIndex) == threadIndex

loopStep(i, nThreads) == i + nThreads

\* The two systems of n atoms the caller may simulate.  System 1: atoms on
\* a line, bonded chains of four with symmetric exclusion sets, the sorted
\* order the atom order.  System 2: scattered atoms of alternating charge,
\* one-sided exclusion sets, the sorted order reversed.
AtomScene(n, s) ==
    IF s = 1
    THEN [posq |-> [i \in 0..(n - 1) |-> [x |-> i, q |-> (i % 3) + 1]],
          exclusions |-> [i \in 0..(n - 1) |->
                            {j \in 0..(n - 1) : (j = i + 1 \/ i = j + 1)
                                                 /\ j \div BlockSize = i \div BlockSize}],
          sortedAtoms |-> [k \in 0..(n - 1) |-> k]]
    ELSE [posq |-> [i \in 0..(n - 1) |->
                      [x |-> (2 * i) % (n + 1), q |-> IF i % 2 = 0 THEN 2 ELSE 0 - 1]],
          exclusions |-> [i \in 0..(n - 1) |->
                            {j \in 0..(n - 1) : j = i + 2}
                               \cup (IF i = n - 1 THEN {0} ELSE {})],
          sortedAtoms |-> [k \in 0..(n - 1) |-> n - 1 - k]]

\* The caller's buffers as a call may find them: zeroed, or holding earlier
\* contributions.
PriorForces(n, dirty) == [i \in 0..(n - 1) |-> IF dirty THEN 10 + i ELSE 0]

PriorEnergy(dirty) == IF dirty THEN 100 ELSE 0

\* Lines 296-310: the parameters are recorded, the two per-thread arrays
\* are resized and the workers are started.
calculateDirectIxn(n, dirty, energyGiven) ==
    /\ ~aborted /\ pc \in {"init", "returned"}
    /\ numberOfAtoms' = n
    /\ posq' = AtomScene(n, system).posq
    /\ exclusions' = AtomScene(n, system).exclusions
    /\ sortedAtoms' = AtomScene(n, system).sortedAtoms
    /\ forces' = PriorForces(n, dirty) /\ forces0' = PriorForces(n, dirty)
    /\ totalEnergy' = PriorEnergy(dirty) /\ energy0' = PriorEnergy(dirty)
    /\ includeEnergy' = energyGiven
    /\ threadEnergy' = Resize(threadEnergy, numThreads, 0)
    /\ threadForce' = Resize(threadForce, numThreads, <<>>)
    /\ tpc' = [t \in Threads |-> "start"]
    /\ ti' = [t \in Threads |-> 0]
    /\ processed' = [u \in Passes \X (0..(n - 1)) \X Threads |-> 0]
    /\ pc' = "running"
    /\ UNCHANGED <<numThreads, system, probe>>
    /\ UNCHANGED <<configVars, aborted, recipVars>>

\* Workers that all accumulate into the first slot.
ownSlot_shared(threadIndex) == 0

\* Lines 334-337: the slot of threadEnergy and of threadForce a worker
\* uses is the one of its thread index.
ownSlot(threadIndex) == threadIndex

\* A force array that is resized and not cleared: what it held stays.
zeroedForces_resizeOnly(old) == Resize(old, numberOfAtoms, 0)

\* Lines 336-339: the array is resized to the atom count of this call and
\* every element is then set to zero, whatever it held.
zeroedForces(old) == [i \in Atoms |-> 0]

\* Lines 333-342: the worker clears its energy, sizes and zeroes its force
\* array and enters the loop of the mode.
threadStart(t) ==
    /\ ~aborted /\ pc = "running" /\ tpc[t] = "start"
    /\ threadEnergy' = [threadEnergy EXCEPT ![ownSlot(t)] = 0]
    /\ threadForce' = [threadForce EXCEPT ![ownSlot(t)] = zeroedForces(@)]
    /\ tpc' = [tpc EXCEPT ![t] = firstPass]
    /\ ti' = [ti EXCEPT ![t] = loopStart(t)]
    /\ UNCHANGED <<numThreads, system, posq, exclusions, sortedAtoms, numberOfAtoms,
                   includeEnergy, forces, totalEnergy, pc, forces0, energy0,
                   processed, probe>>
    /\ UNCHANGED <<configVars, aborted, recipVars>>

\* One test of a loop of lines 345-390 by worker t and, when it holds, one
\* pass of the body.  The block loops read the neighbor list through a
\* pointer that only setUseCutoff sets: with Ewald or PME and no cutoff the
\* read is of an uninitialised pointer, which is undefined; the run ends
\* there, since no defined return of the call follows.
threadLoop(t) ==
    /\ ~aborted /\ pc = "running" /\ tpc[t] \in Passes
    /\ \/ /\ tpc[t] \in {"ewaldBlocks", "cutoffBlocks"}
          /\ neighborList = "unset"
          /\ aborted' = TRUE
          /\ UNCHANGED <<threadEnergy, threadForce, tpc, ti, processed>>
       \/ /\ ~(tpc[t] \in {"ewaldBlocks", "cutoffBlocks"} /\ neighborList = "unset")
          /\ ti[t] < unitCount(tpc[t])
          /\ LET acc == unitBody(tpc[t], ti[t],
                                 [f |-> threadForce[ownSlot(t)],
                                  e |-> threadEnergy[ownSlot(t)]],
                                 includeEnergy)
             IN  /\ threadForce' = [threadForce EXCEPT ![ownSlot(t)] = acc.f]
                 /\ threadEnergy' = [threadEnergy EXCEPT ![ownSlot(t)] = acc.e]
          /\ processed' = [processed EXCEPT ![<<tpc[t], ti[t], t>>] = @ + 1]
          /\ ti' = [ti EXCEPT ![t] = loopStep(ti[t], numThreads)]
          /\ UNCHANGED <<tpc, aborted>>
       \/ /\ ~(tpc[t] \in {"ewaldBlocks", "cutoffBlocks"} /\ neighborList = "unset")
          /\ ~(ti[t] < unitCount(tpc[t]))
          /\ tpc' = [tpc EXCEPT ![t] = nextPass(tpc[t])]
          /\ ti' = [ti EXCEPT ![t] = loopStart(t)]
          /\ UNCHANGED <<threadEnergy, threadForce, processed, aborted>>
    /\ UNCHANGED <<numThreads, system, posq, exclusions, sortedAtoms, numberOfAtoms,
                   includeEnergy, forces, totalEnergy, pc, forces0, energy0, probe>>
    /\ UNCHANGED <<configVars, recipVars>>

RECURSIVE SumOver(_, _)
SumOver(a, n) == IF n = 0 THEN 0 ELSE a[n - 1] + SumOver(a, n - 1)

\* Lines 315-318.
directEnergy == SumOver(threadEnergy, numThreads)

\* A reduction that stores the workers' sum over the caller's value.
mergedForce_overwrite(i) == SumOver([j \in Threads |-> threadForce[j][i]], numThreads)

\* Lines 319-324: f starts as the caller's value and gets every worker's.
mergedForce(i) == forces[i] + SumOver([j \in Threads |-> threadForce[j][i]], numThreads)

\* Lines 311-328: past waitForThreads, the reduction into the caller's
\* buffers.
combineResults ==
    /\ ~aborted /\ pc = "running"
    /\ \A t \in Threads : tpc[t] = "done"
    /\ forces' = [i \in Atoms |-> mergedForce(i)]
    /\ totalEnergy' = IF includeEnergy THEN totalEnergy + directEnergy ELSE totalEnergy
    /\ pc' = "returned"
    /\ UNCHANGED <<numThreads, system, posq, exclusions, sortedAtoms, numberOfAtoms,
                   includeEnergy, threadEnergy, threadForce, tpc, ti, forces0,
                   energy0, processed, probe>>
    /\ UNCHANGED <<configVars, aborted, recipVars>>

\* The sizes tried: one block and MaxBlocks blocks of atoms; every pool size
\* up to MaxThreads.
AtomCounts == {BlockSize, BlockSize * MaxBlocks}

ThreadCounts == 1..MaxThreads

\* An engine as the setters can leave it: any of cutoff, Ewald and PME (the
\* last two not together here: the direct-space path reads only their
\* disjunction), periodic only with a cutoff, the largest cutoff distance
\* and a box of MaxAtoms + 1 that holds every atom.  The switching flag is
\* left off: the pair arithmetic above does not read it.
InitEval ==
    /\ cutoff \in BOOLEAN /\ ewald \in BOOLEAN /\ pme \in BOOLEAN
    /\ ~(ewald /\ pme)
    /\ useSwitch = FALSE
    /\ periodic \in (IF cutoff THEN BOOLEAN ELSE {FALSE})
    /\ cutoffDistance = MaxDist
    /\ switchingDistance = 1
    /\ periodicBoxSize = [k \in 1..3 |-> MaxAtoms + 1]
    /\ alphaEwald = 1
    /\ numRx = 1 /\ numRy = 1 /\ numRz = 1
    /\ neighborList = (IF cutoff THEN "set" ELSE "unset")
    /\ ewaldDX = cutoffDistance
    /\ ewaldScaleTable = (IF ewald \/ pme THEN <<alphaEwald, cutoffDistance>> ELSE <<>>)
    /\ aborted = FALSE
    /\ numThreads \in ThreadCounts
    /\ system \in {1, 2}
    /\ posq = <<>> /\ exclusions = <<>> /\ sortedAtoms = <<>>
    /\ numberOfAtoms = 0 /\ includeEnergy = FALSE
    /\ forces = <<>> /\ totalEnergy = 0
    /\ threadEnergy = <<>> /\ threadForce = <<>>
    /\ pc = "init" /\ tpc = <<>> /\ ti = <<>>
    /\ forces0 = <<>> /\ energy0 = 0
    /\ processed = <<>>
    /\ probe = [kind |-> "none"]
    /\ NoRecip

NextEval ==
    \/ \E n \in AtomCounts, dirty \in BOOLEAN, energyGiven \in BOOLEAN :
          calculateDirectIxn(n, dirty, energyGiven)
    \/ \E t \in Threads : threadStart(t)
    \/ \E t \in Threads : threadLoop(t)
    \/ combineResults

SpecEval == InitEval /\ [][NextEval]_vars

\* ------------------------------------------- the claims on one evaluation
\* What a single worker of a pool of one adds to zeroed accumulators: every
\* unit of every loop of the mode, in order.
RECURSIVE allUnits(_, _, _, _)
allUnits(pass, i, acc, withEnergy) ==
    IF i >= unitCount(pass) THEN acc
    ELSE allUnits(pass, i + 1, unitBody(pass, i, acc, withEnergy), withEnergy)

singleThread(withEnergy) ==
    LET zero == [f |-> [i \in Atoms |-> 0], e |-> 0]
        first == allUnits(firstPass, 0, zero, withEnergy)
    IN  IF nextPass(firstPass) = "done" THEN first
        ELSE allUnits(nextPass(firstPass), 0, first, withEnergy)

\* C1: on return every outForces[i] is its value before the call plus the
\* sum over the workers of their private force for atom i, and with an
\* energy pointer the energy is its prior value plus the sum of the
\* per-thread energies.
C1_MergeIsAdditive ==
    pc = "returned" =>
        /\ \A i \in Atoms :
              forces[i] = forces0[i]
                          + SumOver([t \in Threads |-> threadForce[t][i]], numThreads)
        /\ includeEnergy =>
              totalEnergy = energy0 + SumOver(threadEnergy, numThreads)

\* C1 witness: a call on buffers that held earlier contributions has
\* returned, with two or more workers, an energy pointer and a worker whose
\* private forces are not zero.
C1_Witness ==
    /\ pc = "returned" /\ numThreads >= 2 /\ includeEnergy
    /\ forces0[0] # 0 /\ energy0 # 0
    /\ \E t \in Threads, i \in Atoms : threadForce[t][i] # 0
    /\ \E t \in Threads : threadEnergy[t] # 0

\* C2: whatever the size of the pool, a call adds to the caller's buffers
\* the forces and the energy that a pool of one thread adds, in the
\* brute-force, the cutoff and the Ewald/PME mode.
C2_ThreadCountInvariance ==
    pc = "returned" =>
        /\ \A i \in Atoms : forces[i] - forces0[i] = singleThread(includeEnergy).f[i]
        /\ includeEnergy => totalEnergy - energy0 = singleThread(TRUE).e

\* C2 witness: an Ewald/PME call of a pool of two or more threads has
\* returned, having added forces and energy.
C2_Witness ==
    /\ pc = "returned" /\ numThreads >= 2 /\ (ewald \/ pme) /\ includeEnergy
    /\ forces # forces0 /\ totalEnergy # energy0
    /\ numberOfAtoms > BlockSize

passesOfMode == {firstPass} \cup ({nextPass(firstPass)} \ {"done"})

\* C10: no worker processes a unit that is not its own or processes one
\* twice, and on return every unit of every loop of the mode was processed
\* once, by the worker whose index is the unit index mod T.
C10_RoundRobinPartition ==
    pc \in {"running", "returned"} =>
        \A pass \in Passes, u \in Atoms, t \in Threads :
            LET own == /\ pass \in passesOfMode
                       /\ u < unitCount(pass)
                       /\ t = u % numThreads
            IN  /\ processed[<<pass, u, t>>] <= (IF own THEN 1 ELSE 0)
                /\ (pc = "returned" /\ own) => processed[<<pass, u, t>>] = 1

\* C10 witness: a call has returned in which a pool of two or more threads
\* shared two or more blocks and the atoms of the exclusion pass.
C10_Witness ==
    /\ pc = "returned" /\ numThreads >= 2
    /\ firstPass = "ewaldBlocks" /\ getNumBlocks >= 2
    /\ processed[<<"ewaldBlocks", 1, 1 % numThreads>>] = 1
    /\ processed[<<"exclusions", numberOfAtoms - 1, (numberOfAtoms - 1) % numThreads>>] = 1

\* Worker t took a step: every step of threadComputeDirect moves the
\* worker's place or its loop index.
Stepped(t) == tpc'[t] # tpc[t] \/ ti'[t] # ti[t]

\* C11: while the workers run, a step that changes the private force array
\* or energy of slot u is a step of worker u and of no other worker, under
\* every interleaving; and the caller's forces and energy change only in
\* the reduction, which the orchestrator runs once every worker has
\* finished and which ends the call.
C11_RaceFreedom ==
    [][pc = "running" =>
          /\ \A u \in Threads :
                (threadForce'[u] # threadForce[u] \/ threadEnergy'[u] # threadEnergy[u])
                    => /\ Stepped(u)
                       /\ \A t \in Threads \ {u} : ~Stepped(t)
          /\ (forces' # forces \/ totalEnergy' # totalEnergy)
                => /\ \A t \in Threads : tpc[t] = "done"
                   /\ pc' = "returned"]_vars

\* C11 witness: two workers are both inside their loops and each holds a
\* non-zero force for the same atom in its own array, while the caller's
\* buffers are still as the call found them.
C11_Witness ==
    /\ pc = "running" /\ numThreads >= 2
    /\ tpc[0] \in Passes /\ tpc[1] \in Passes
    /\ \E i \in Atoms : threadForce[0][i] # 0 /\ threadForce[1][i] # 0
    /\ forces = forces0 /\ totalEnergy = energy0

\* Lines 354-355: the partners that the correction loop of atom i corrects,
\* those of its own exclusion set that lie above it.
correctedPartners(i) == {j \in exclusions[i] : j > i}

\* How often the pair (i, j), i < j, was corrected so far: only the loop
\* pass of atom i can correct it, once each time a worker runs it.
Corrections(i, j) ==
    IF j \in correctedPartners(i)
    THEN SumOver([t \in Threads |-> processed[<<"exclusions", i, t>>]], numThreads)
    ELSE 0

\* One correction (lines 356-372) for every excluded unordered pair from
\* (i, j) on, in the order of the pairs.
RECURSIVE onePerExcludedPair(_, _, _, _)
onePerExcludedPair(i, j, acc, withEnergy) ==
    IF i >= numberOfAtoms THEN acc
    ELSE IF j >= numberOfAtoms THEN onePerExcludedPair(i + 1, i + 2, acc, withEnergy)
    ELSE onePerExcludedPair(i, j + 1,
                            IF Excluded(i, j) THEN exclusionIxn(i, j, acc, withEnergy)
                                              ELSE acc,
                            withEnergy)

\* What the call is to add in Ewald/PME mode: the block kernel's pairs and
\* one correction per excluded pair.
blocksAndCorrections(withEnergy) ==
    onePerExcludedPair(0, 1,
                       allUnits("ewaldBlocks", 0, [f |-> [i \in Atoms |-> 0], e |-> 0],
                                withEnergy),
                       withEnergy)

\* C12: when an Ewald/PME call has returned, every unordered pair {i, j}
\* with j in exclusions[i] or i in exclusions[j] was corrected exactly once
\* and no other pair was corrected, whatever the distance of the pair, the
\* exclusion sets and the number of threads; the forces and the energy the
\* call added are those of the block kernel and of one correction per
\* excluded pair.
C12_ExclusionCoverage ==
    (pc = "returned" /\ (ewald \/ pme)) =>
        /\ \A i \in Atoms, j \in Atoms :
              i < j => Corrections(i, j) = (IF Excluded(i, j) THEN 1 ELSE 0)
        /\ \A i \in Atoms :
              forces[i] - forces0[i] = blocksAndCorrections(includeEnergy).f[i]
        /\ includeEnergy => totalEnergy - energy0 = blocksAndCorrections(TRUE).e

\* Every exclusion is listed by both of its atoms.
SymmetricExclusions ==
    \A i \in Atoms, j \in Atoms : j \in exclusions[i] <=> i \in exclusions[j]

\* The same for exclusion sets that list every pair on both sides: the
\* case the correction loop does cover.
C12_ExclusionCoverageSymmetric ==
    (pc = "returned" /\ (ewald \/ pme) /\ SymmetricExclusions) =>
        /\ \A i \in Atoms, j \in Atoms :
              i < j => Corrections(i, j) = (IF Excluded(i, j) THEN 1 ELSE 0)
        /\ \A i \in Atoms :
              forces[i] - forces0[i] = blocksAndCorrections(includeEnergy).f[i]
        /\ includeEnergy => totalEnergy - energy0 = blocksAndCorrections(TRUE).e

\* C15: in every call of a sequence of calls, a worker leaves its entry
\* with its energy at 0 and its force array zero in every slot of this
\* call's atoms, whatever an earlier call left there; nothing is added to
\* its accumulators before that; the reduction runs only once no worker is
\* still at its entry, and what it adds to the caller's forces and energy
\* is what this call's atoms, energy pointer and configuration give from
\* zeroed accumulators.
C15_FreshAccumulators ==
    [][pc = "running" =>
          /\ \A t \in Threads :
                /\ (tpc[t] = "start" /\ tpc'[t] # "start")
                      => /\ threadEnergy'[t] = 0
                         /\ threadForce'[t] = [i \in Atoms |-> 0]
                /\ (tpc[t] = "start" /\ tpc'[t] = "start")
                      => /\ threadEnergy'[t] = threadEnergy[t]
                         /\ threadForce'[t] = threadForce[t]
          /\ pc' = "returned"
                => /\ \A t \in Threads : tpc[t] # "start"
                   /\ \A i \in Atoms :
                         forces'[i] - forces[i] = singleThread(includeEnergy).f[i]
                   /\ totalEnergy' - totalEnergy = singleThread(includeEnergy).e]_vars

\* C15 witness: in a call without an energy pointer one worker has been
\* reset and has finished while the other is still at its entry, holding
\* the energy and the forces an earlier call on another number of atoms
\* left in its accumulators.
C15_Witness ==
    /\ pc = "running" /\ numThreads >= 2 /\ ~includeEnergy
    /\ tpc[0] = "done" /\ tpc[1] = "start"
    /\ threadEnergy[1] # 0
    /\ DOMAIN threadForce[1] # Atoms
    /\ \E i \in DOMAIN threadForce[1] : threadForce[1][i] # 0
    /\ \E i \in Atoms : threadForce[0][i] # 0

\* ---------------------- calculateReciprocalIxn: the reciprocal vectors
\* The vectors the three loops can name: rx in [0, numRx), ry and rz of
\* either sign.
KVectors == (0..(MaxK - 1)) \X ((1 - MaxK)..(MaxK - 1)) \X ((1 - MaxK)..(MaxK - 1))

\* Line 187: the number of rows of the phase-factor table eir, which holds
\* kmax * numberOfAtoms * 3 elements (line 219).
kmax ==
    IF ewald
    THEN (IF numRx >= numRy /\ numRx >= numRz THEN numRx
          ELSE IF numRy >= numRz THEN numRy ELSE numRz)
    ELSE 0

Abs(k) == IF k < 0 THEN 0 - k ELSE k

\* Lines 223-235, for one atom or more: rows 0 and 1 are written for every
\* atom and axis, then rows 2 .. kmax-1, each from row 1 and the row
\* before it.
eirSetupRows == {0, 1} \cup (2..(kmax - 1))

\* Lines 187-205 and 218-240: the PME branch hands the sum to the mesh
\* solver; the Ewald branch fills the phase-factor table and starts the
\* loops with lowry = 0, lowrz = 1.
recipBegin ==
    /\ ~aborted /\ rpc = "init"
    /\ visited' = [k \in KVectors |-> 0]
    /\ \/ /\ pme
          /\ rpc' = "done"
          /\ UNCHANGED <<rx, ry, rz, lowry, lowrz, eirRows>>
       \/ /\ ~pme /\ ewald
          /\ eirRows' = eirSetupRows
          /\ rpc' = "rx"
          /\ rx' = 0 /\ lowry' = 0 /\ lowrz' = 1
          /\ UNCHANGED <<ry, rz>>
    /\ UNCHANGED <<configVars, aborted, callVars>>

\* Line 242: the test of the rx loop; line 244: ry starts at lowry.
recipLoopRx ==
    /\ rpc = "rx"
    /\ \/ /\ rx < numRx
          /\ ry' = lowry
          /\ rpc' = "ry"
       \/ /\ ~(rx < numRx)
          /\ rpc' = "done"
          /\ UNCHANGED ry
    /\ UNCHANGED <<rx, rz, lowry, lowrz, visited, eirRows>>
    /\ UNCHANGED <<configVars, aborted, callVars>>

\* Line 244: the test of the ry loop; lines 246-253: tab_xy is built from
\* rows rx and |ry|; line 254: rz starts at lowrz; at the end of the ry
\* loop, rx++ (line 242).
recipLoopRy ==
    /\ rpc = "ry"
    /\ \/ /\ ry < numRy
          /\ eirRows' = eirRows \cup {rx, Abs(ry)}
          /\ rz' = lowrz
          /\ rpc' = "rz"
          /\ UNCHANGED rx
       \/ /\ ~(ry < numRy)
          /\ rx' = rx + 1
          /\ rpc' = "rx"
          /\ UNCHANGED <<rz, eirRows>>
    /\ UNCHANGED <<ry, lowry, lowrz, visited>>
    /\ UNCHANGED <<configVars, aborted, callVars>>

\* Lines 254-286: one pass of the rz loop sums the vector (rx, ry, rz) and
\* sets lowrz (line 285); line 287 after the loop sets lowry, then ry++.
recipLoopRz ==
    /\ rpc = "rz"
    /\ \/ /\ rz < numRz
          /\ eirRows' = eirRows \cup {Abs(rz)}
          /\ visited' = [visited EXCEPT ![<<rx, ry, rz>>] = @ + 1]
          /\ lowrz' = 1 - numRz
          /\ rz' = rz + 1
          /\ UNCHANGED <<ry, lowry, rpc>>
       \/ /\ ~(rz < numRz)
          /\ lowry' = 1 - numRy
          /\ ry' = ry + 1
          /\ rpc' = "ry"
          /\ UNCHANGED <<rz, lowrz, visited, eirRows>>
    /\ UNCHANGED rx
    /\ UNCHANGED <<configVars, aborted, callVars>>

\* An engine configured for a periodic Ewald sum: setUseCutoff, setPeriodic,
\* setUseEwald(alpha, kmaxx, kmaxy, kmaxz), and possibly setUsePME as well.
InitRecip ==
    /\ cutoff = TRUE /\ useSwitch = FALSE /\ periodic = TRUE
    /\ ewald = TRUE /\ pme \in BOOLEAN
    /\ cutoffDistance = 1
    /\ switchingDistance = 1
    /\ periodicBoxSize = [k \in 1..3 |-> 2 * MaxDist]
    /\ alphaEwald = 1
    /\ numRx \in KMaxes /\ numRy \in KMaxes /\ numRz \in KMaxes
    /\ neighborList = "set"
    /\ ewaldDX = 1
    /\ ewaldScaleTable = <<1, 1>>
    /\ aborted = FALSE
    /\ NoCall /\ NoRecip

NextRecip == recipBegin \/ recipLoopRx \/ recipLoopRy \/ recipLoopRz

SpecRecip == InitRecip /\ [][NextRecip]_vars

Negated(k) == <<0 - k[1], 0 - k[2], 0 - k[3]>>

Visits(k) == IF k \in DOMAIN visited THEN visited[k] ELSE 0

InRange(k) ==
    /\ k[1] < numRx /\ 0 - k[1] < numRx
    /\ k[2] < numRy /\ 0 - k[2] < numRy
    /\ k[3] < numRz /\ 0 - k[3] < numRz

\* C9: when the Ewald loops have ended, no vector was visited twice,
\* (0,0,0) was not visited, no k was visited along with -k, and of every
\* nonzero k with |rx| < kmaxx, |ry| < kmaxy, |rz| < kmaxz exactly one of k
\* and -k was visited, once.
C9_HalfSpaceOnce ==
    (rpc = "done" /\ ~pme) =>
        /\ \A k \in KVectors : visited[k] <= 1
        /\ visited[<<0, 0, 0>>] = 0
        /\ \A k \in KVectors :
              k # <<0, 0, 0>> => ~(Visits(k) >= 1 /\ Visits(Negated(k)) >= 1)
        /\ \A k \in KVectors :
              (k # <<0, 0, 0>> /\ InRange(k)) =>
                  Visits(k) + Visits(Negated(k)) = 1

\* The same with kmaxz >= 2: the case the loops do cover.
C9_HalfSpaceOnceFromTwo ==
    (rpc = "done" /\ ~pme /\ numRz >= 2) =>
        /\ \A k \in KVectors : visited[k] <= 1
        /\ visited[<<0, 0, 0>>] = 0
        /\ \A k \in KVectors :
              (k # <<0, 0, 0>> /\ InRange(k)) =>
                  Visits(k) + Visits(Negated(k)) = 1
        /\ \A k \in KVectors : ~InRange(k) => visited[k] = 0

\* C16: in the Ewald reciprocal sum every row k of EIR(k, atom, axis) that
\* is written or read (rows 0 and 1, the incremental rows 2..kmax-1, the
\* lookups at rx, |ry| and |rz|) satisfies 0 <= k < kmax, with kmax the
\* largest of kmaxx, kmaxy, kmaxz, each >= 1.
C16_EirRowsInBounds ==
    \A k \in eirRows : 0 <= k /\ k < kmax

\* The same when some kmax is 2 or more: row 1 then exists.
C16_EirRowsInBoundsFromTwo ==
    kmax >= 2 => \A k \in eirRows : 0 <= k /\ k < kmax

\* The preconditions setPeriodic asserts, for a box handed to it now.
PeriodicAllowed(box) ==
    cutoff /\ \A k \in 1..3 : box[k] >= 2 * cutoffDistance

\* C3: a setPeriodic(box) call whose preconditions fail (no cutoff, or a box
\* dimension below 2 x cutoff) ends in the fatal error and leaves periodic
\* and the stored box as they were; a call whose preconditions hold enables
\* periodic and stores the box, without a fatal error.
C3_SetPeriodicFailsFast ==
    [][\A box \in Boxes : setPeriodic(box) =>
          IF PeriodicAllowed(box)
          THEN periodic' /\ periodicBoxSize' = box /\ ~aborted'
          ELSE /\ aborted'
               /\ periodic' = periodic
               /\ periodicBoxSize' = periodicBoxSize]_vars

\* C3 witness: a setPeriodic call made without a cutoff has ended in the
\* fatal error, with periodic still off.
C3_Witness == aborted /\ ~periodic /\ ~cutoff

\* C4: whenever periodic is enabled, cutoff is enabled and each stored box
\* dimension is at least 2 x the current cutoff distance.
C4_PeriodicBoxFitsCutoff ==
    periodic => PeriodicAllowed(periodicBoxSize)

\* C5: the ewald and pme flags are never both enabled.
C5_EwaldPmeExclusive == ~(ewald /\ pme)

\* C6: switching enabled implies cutoff enabled.
C6_SwitchingNeedsCutoff == useSwitch => cutoff

\* C7: while Ewald or PME is enabled, the stored table and its step are the
\* ones sampled with the current alpha and the current cutoff distance.
C7_TableNeverStale ==
    (ewald \/ pme) =>
        /\ ewaldScaleTable = <<alphaEwald, cutoffDistance>>
        /\ ewaldDX = cutoffDistance

\* --------------------- the table lookup of the Ewald/PME block kernel
\* floor(sqrt(v)), searched between lo and hi (lo^2 <= v < hi^2).
RECURSIVE ISqrtIn(_, _, _)
ISqrtIn(v, lo, hi) ==
    IF hi - lo <= 1 THEN lo
    ELSE LET mid == (lo + hi) \div 2
         IN  IF mid * mid <= v THEN ISqrtIn(v, mid, hi) ELSE ISqrtIn(v, lo, mid)

\* Lines 697-698: index = floor(r * ewaldDXInv), with ewaldDXInv = 1/ewaldDX
\* (line 160) and ewaldDX in units of 1/(NUM_TABLE_POINTS-2):
\* floor(sqrt(r2) * (NUM_TABLE_POINTS-2) / ewaldDX).
tableIndex(r2) ==
    ISqrtIn((r2 * (NUM_TABLE_POINTS - 2) * (NUM_TABLE_POINTS - 2)) \div (ewaldDX * ewaldDX),
            0, (r2 + 1) * NUM_TABLE_POINTS)

\* Lines 693-710: the lane's bucket, and whether line 707 assigns y[i]; it
\* is left as it was when the bucket is past the table.
ewaldScaleFunction(r2) ==
    [index |-> tableIndex(r2), assigned |-> tableIndex(r2) < NUM_TABLE_POINTS]

\* The squared distances of a lane tried: up to the largest cutoff squared.
LaneR2s == 0..(MaxDist * MaxDist)

\* Lines 598-617 and 645-649 for one lane of one neighbor: the inclusion
\* test of line 600 with the lane's exclusion bit, and the lookup of line
\* 617, which is made for all four lanes once any lane is included.  The
\* kernel runs in Ewald or PME mode on the neighbor list of setUseCutoff.
ewaldLane(excluded, r2) ==
    /\ ~aborted
    /\ ewald \/ pme
    /\ neighborList = "set"
    /\ probe' = [kind |-> "ewaldLane",
                 r2 |-> r2,
                 include |-> ~excluded /\ r2 < cutoffDistance * cutoffDistance,
                 index |-> ewaldScaleFunction(r2).index,
                 assigned |-> ewaldScaleFunction(r2).assigned,
                 fresh |-> ewaldDX = cutoffDistance]
    /\ UNCHANGED <<numThreads, system, posq, exclusions, sortedAtoms, numberOfAtoms,
                   includeEnergy, forces, totalEnergy, threadEnergy, threadForce,
                   pc, tpc, ti, forces0, energy0, processed>>
    /\ UNCHANGED <<configVars, aborted, recipVars>>

\* A new engine; the members the lookup does not read take one value.
InitLookup ==
    /\ InitConfig
    /\ switchingDistance = 1
    /\ periodicBoxSize = [k \in 1..3 |-> 2 * MaxDist]
    /\ numRx = 1

NextLookup ==
    \/ \E d \in Distances : setUseCutoff(d)
    \/ \E a \in Alphas : setUseEwald(a, 1, 1, 1)
    \/ \E a \in Alphas : setUsePME(a)
    \/ \E excluded \in BOOLEAN, r2 \in LaneR2s : ewaldLane(excluded, r2)

SpecLookup == InitLookup /\ [][NextLookup]_vars

\* C13: in the Ewald/PME block kernel every lane that is accumulated (not
\* excluded by the bitmask and r^2 < cutoff^2) has a bucket index
\* floor(r / step) in [0, NUM_TABLE_POINTS), so the lookup assigned it.
C13_LookupInRange ==
    (probe.kind = "ewaldLane" /\ probe.include) =>
        /\ probe.index >= 0 /\ probe.index < NUM_TABLE_POINTS
        /\ probe.assigned

\* The same while the step is the one of the current cutoff distance: the
\* index then stays below NUM_TABLE_POINTS - 2.
C13_LookupInRangeFreshStep ==
    (probe.kind = "ewaldLane" /\ probe.include /\ probe.fresh) =>
        /\ probe.index >= 0 /\ probe.index < NUM_TABLE_POINTS - 2
        /\ probe.assigned

\* ------------------------------- needPeriodic and the displacement
\* Two blocks of atoms: the first block's atoms at p and q, the second
\* block's, the first block's neighbors, at y; no exclusions.
WrapScene(p, q, y) ==
    [posq |-> [a \in 0..(2 * BlockSize - 1) |->
                 [x |-> IF a < 2 THEN p ELSE IF a < BlockSize THEN q ELSE y, q |-> 1]],
     exclusions |-> [a \in 0..(2 * BlockSize - 1) |-> {}],
     sortedAtoms |-> [k \in 0..(2 * BlockSize - 1) |-> k]]

\* Lines 475-493 and 585-601 for lane k of neighbor i of block b: the
\* displacement getDeltaR computes with the block's needPeriodic and the
\* inclusion test on it; beside them, the displacement and the test with
\* the minimum image taken.
blockLaneGeometry(b, i, k) ==
    /\ ~aborted /\ pc = "running"
    /\ LET isEwald == ewald \/ pme
           atom == getBlockNeighbors(b)[i]
           d == getDeltaR(posq[atom].x, posq[blockAtom(b, k)].x, needPeriodic(b, isEwald))
           dWrapped == getDeltaR(posq[atom].x, posq[blockAtom(b, k)].x, TRUE)
       IN  probe' = [kind |-> "geometry",
                     needPeriodic |-> needPeriodic(b, isEwald),
                     d |-> d,
                     include |-> include(b, i, k, d * d, isEwald),
                     dWrapped |-> dWrapped,
                     includeWrapped |-> include(b, i, k, dWrapped * dWrapped, isEwald),
                     inBox |-> posq[atom].x >= 0 /\ posq[atom].x < periodicBoxSize[1]]
    /\ UNCHANGED <<numThreads, system, posq, exclusions, sortedAtoms, numberOfAtoms,
                   includeEnergy, forces, totalEnergy, threadEnergy, threadForce,
                   pc, tpc, ti, forces0, energy0, processed>>
    /\ UNCHANGED <<configVars, aborted, recipVars>>

\* An engine after setUseCutoff, setPeriodic with a cubic box of at least
\* 2 x cutoff and possibly setUseEwald, inside a call on atoms of which the
\* first block lies in the box and the second anywhere within a box length
\* of it.
InitWrap ==
    /\ cutoff = TRUE /\ useSwitch = FALSE /\ periodic = TRUE
    /\ ewald \in BOOLEAN /\ pme = FALSE
    /\ cutoffDistance \in Distances
    /\ switchingDistance = 1
    /\ \E L \in BoxDims : L >= 2 * cutoffDistance /\ periodicBoxSize = [k \in 1..3 |-> L]
    /\ alphaEwald = 1
    /\ numRx = 1 /\ numRy = 1 /\ numRz = 1
    /\ neighborList = "set"
    /\ ewaldDX = cutoffDistance
    /\ ewaldScaleTable = (IF ewald THEN <<alphaEwald, cutoffDistance>> ELSE <<>>)
    /\ aborted = FALSE
    /\ numThreads = 1 /\ system = 1
    /\ numberOfAtoms = 2 * BlockSize
    /\ \E p \in 0..periodicBoxSize[1], q \in 0..periodicBoxSize[1],
          y \in (0 - periodicBoxSize[1])..(2 * periodicBoxSize[1]) :
          /\ posq = WrapScene(p, q, y).posq
          /\ exclusions = WrapScene(p, q, y).exclusions
          /\ sortedAtoms = WrapScene(p, q, y).sortedAtoms
    /\ includeEnergy = FALSE
    /\ forces = [a \in 0..(2 * BlockSize - 1) |-> 0] /\ totalEnergy = 0
    /\ forces0 = forces /\ energy0 = 0
    /\ threadEnergy = <<>> /\ threadForce = <<>>
    /\ pc = "running" /\ tpc = <<>> /\ ti = <<>>
    /\ processed = <<>>
    /\ probe = [kind |-> "none"]
    /\ NoRecip

NextWrap ==
    \E b \in 0..(getNumBlocks - 1), i \in 1..(2 * BlockSize - 1), k \in Lanes :
        i \in DOMAIN getBlockNeighbors(b) /\ blockLaneGeometry(b, i, k)

SpecWrap == InitWrap /\ [][NextWrap]_vars

\* C14: with periodic enabled and every box dimension >= 2 x cutoff, for a
\* block whose needPeriodic is false and a neighbor at any position, each
\* lane is included without wrapping exactly when it is included with the
\* minimum image, and an included lane's displacement is the minimum-image
\* displacement.
C14_SkipWrapIsExact ==
    (probe.kind = "geometry" /\ ~probe.needPeriodic) =>
        /\ probe.include = probe.includeWrapped
        /\ probe.include => probe.d = probe.dWrapped

\* The same for a neighbor that lies in the box, 0 <= x < boxSize.
C14_SkipWrapIsExactInBox ==
    (probe.kind = "geometry" /\ ~probe.needPeriodic /\ probe.inBox) =>
        /\ probe.include = probe.includeWrapped
        /\ probe.include => probe.d = probe.dWrapped

=============================================================================
